---- MODULE Spec2Model ----
(***************************************************************************)
(* Model of the tile proxy of src/main.py: the process-local LRU cache     *)
(* (Local Tier), the Redis hash cache (Remote Tier), the read/fill path of *)
(* proxy(), the client-tracking registration task and the invalidation     *)
(* listener.                                                               *)
(*                                                                         *)
(* The program runs on one asyncio event loop.  A coroutine runs without   *)
(* interruption until it awaits I/O; asyncio.Lock.acquire() does not yield *)
(* when the lock is free, and no holder of local_cache_lock or             *)
(* metrics_lock awaits while holding it, so the locks are never contended. *)
(* Each action below is therefore one run of a task between two I/O        *)
(* suspensions, or one step of the environment (Redis server, origin,      *)
(* clock).                                                                 *)
(***************************************************************************)
EXTENDS Integers, Sequences, FiniteSets, TLC

\* ---------------------------------------------------------------- bounds
\* The capacity the process computes at import lies in 100..100000; the
\* cache code reads it only in `len(local_cache) > LOCAL_CACHE_MAX_ENTRIES`,
\* so the model draws it from 1..MaxCapacity to make eviction reachable.
MaxCapacity == 2
MaxTime == 2
MaxTTL == 1
MaxFailures == 7
MaxPush == 1
MaxRequests == 2

\* Cache keys ("tile_cache:<url>?<query>"), abstracted to three identities.
Keys == {"k1", "k2", "k3"}
\* Tile payloads (body, content type) the callers store.
Tiles == {<<"", "image/png">>, <<"tileA", "image/jpeg">>}

None == <<>>
Some(x) == <<x>>

\* Concurrent proxy() tasks.
Slots == {"r1", "r2"}
\* The keys requests ask for.
ReqKeys == {"k1"}

VARIABLES
    now,                      \* time.time(), in whole seconds
    LOCAL_CACHE_MAX_ENTRIES,  \* capacity fixed at import
    local_cache,              \* dict in insertion order: Seq of [key, body, ct, exp]
    call,                     \* the last Local Tier call and what it returned
    inserted,                 \* keys set so far, while the calls were only sets of new keys
    metrics,                  \* the Metrics instance
    phase,                    \* lifespan: "import", "running", "closing", then "stopped"
                              \* or "shutdown_error" when the shutdown code raised
    retry_pc,                 \* where _enable_tracking_with_retry stands
    backoff,                  \* its local variable
    failures,                 \* consecutive failed registration attempts so far
    listener,                 \* the _tracking_listener task
    redis_tracking_active,    \* app.state.redis_tracking_active
    server_tracking,          \* the Redis server has CLIENT TRACKING on for us
    pushq,                    \* push messages sent by the server, not yet read
    invalidated,              \* keys the listener evicted and nobody set since
    remote,                   \* the Redis hashes under the prefix, with their expiry
    req,                      \* the proxy() tasks, one per slot
    started,                  \* requests accepted so far
    last                      \* the proxy() task that returned last, as it ended

vars == <<now, LOCAL_CACHE_MAX_ENTRIES, local_cache, call, inserted, metrics, phase,
          retry_pc,
          backoff, failures, listener, redis_tracking_active, server_tracking,
          pushq, invalidated, remote, req, started, last>>

reqVars == <<remote, req, started, last>>

trackingVars == <<phase, retry_pc, backoff, failures, listener,
                  redis_tracking_active, server_tracking, pushq>>

\* ------------------------------------------------------------ Local Tier
RECURSIVE IndexOf(_, _)
\* Position of key k in the dict's insertion order, 0 when absent.
IndexOf(cache, k) ==
    IF cache = <<>> THEN 0
    ELSE IF cache[Len(cache)].key = k THEN Len(cache)
    ELSE IndexOf(SubSeq(cache, 1, Len(cache) - 1), k)

Has(cache, k) == IndexOf(cache, k) # 0

\* dict.pop(k, None): the entry is removed, the order of the others kept.
Pop(cache, k) ==
    LET i == IndexOf(cache, k)
    IN IF i = 0 THEN cache
       ELSE SubSeq(cache, 1, i - 1) \o SubSeq(cache, i + 1, Len(cache))

\* Faulty variant, for sensitivity: the item is added without looking for
\* its key.
Assign_Append(cache, item) == Append(cache, item)

\* Faulty variant, for sensitivity: an existing key keeps its old value.
Assign_KeepOld(cache, item) ==
    IF IndexOf(cache, item.key) = 0 THEN Append(cache, item) ELSE cache

\* dict[k] = item: an existing key keeps its position, a new key goes last.
Assign(cache, item) ==
    LET i == IndexOf(cache, item.key)
    IN IF i = 0 THEN Append(cache, item)
       ELSE [cache EXCEPT ![i] = item]

RECURSIVE EvictOldest_OffByOne(_, _)
\* Faulty variant, for sensitivity: the loop compares with >= one too far and leaves cap + 1 entries.
EvictOldest_OffByOne(cache, cap) ==
    IF Len(cache) > cap + 1 THEN EvictOldest_OffByOne(Tail(cache), cap) ELSE cache

RECURSIVE EvictOldest_Newest(_, _)
\* Faulty variant, for sensitivity: the loop pops the newest entry.
EvictOldest_Newest(cache, cap) ==
    IF Len(cache) > cap
    THEN EvictOldest_Newest(SubSeq(cache, 1, Len(cache) - 1), cap)
    ELSE cache

RECURSIVE EvictOldest(_, _)
\* while len(local_cache) > LOCAL_CACHE_MAX_ENTRIES: pop(next(iter(...)))
EvictOldest(cache, cap) ==
    IF Len(cache) > cap THEN EvictOldest(Tail(cache), cap) ELSE cache

\* Faulty variant, for sensitivity: the expiry is not looked at.
local_cache_get_no_expiry(cache, key, t) ==
    LET i == IndexOf(cache, key)
    IN IF i = 0 THEN [cache |-> cache, result |-> None]
       ELSE [cache |-> Append(Pop(cache, key), cache[i]), result |-> Some(cache[i])]

\* Faulty variant, for sensitivity: a hit leaves the entry where it is.
local_cache_get_no_promote(cache, key, t) ==
    LET i == IndexOf(cache, key)
    IN IF i = 0 THEN [cache |-> cache, result |-> None]
       ELSE IF cache[i].exp <= t
            THEN [cache |-> Pop(cache, key), result |-> None]
            ELSE [cache |-> cache, result |-> Some(cache[i])]

\* _local_cache_get: the map afterwards and the value returned.
local_cache_get(cache, key, t) ==
    LET i == IndexOf(cache, key)
    IN IF i = 0 THEN [cache |-> cache, result |-> None]
       ELSE IF cache[i].exp <= t
            THEN [cache |-> Pop(cache, key), result |-> None]
            ELSE [cache |-> Append(Pop(cache, key), cache[i]),
                  result |-> Some(cache[i])]

\* Faulty variant, for sensitivity: entries that have expired are dropped
\* before the eviction loop runs.
local_cache_set_purge_expired(cache, key, body, ct, ttl, t, cap) ==
    IF ttl <= 0 THEN cache
    ELSE LET live(e) == e.exp > t
         IN EvictOldest(
                Assign(SelectSeq(cache, live),
                       [key |-> key, body |-> body, ct |-> ct, exp |-> t + ttl]),
                cap)

\* Faulty variant, for sensitivity: the TTL is not looked at.
local_cache_set_any_ttl(cache, key, body, ct, ttl, t, cap) ==
    EvictOldest(
        Assign(cache, [key |-> key, body |-> body, ct |-> ct, exp |-> t + ttl]),
        cap)

\* _local_cache_set: nothing for ttl <= 0, else the assignment and the
\* eviction loop.
local_cache_set(cache, key, body, ct, ttl, t, cap) ==
    IF ttl <= 0 THEN cache
    ELSE EvictOldest(
             Assign(cache, [key |-> key, body |-> body, ct |-> ct, exp |-> t + ttl]),
             cap)

\* Faulty variant, for sensitivity: only the first key of the batch is popped.
local_cache_evict_first(cache, keys) ==
    IF keys = <<>> THEN cache ELSE Pop(cache, Head(keys))

\* Faulty variant, for sensitivity: a batch that names a cached key empties
\* the map.
local_cache_evict_clear(cache, keys) ==
    IF \E i \in 1..Len(keys) : Has(cache, keys[i]) THEN <<>> ELSE cache

RECURSIVE local_cache_evict(_, _)
\* _local_cache_evict: keys is a list; each is popped if present.
local_cache_evict(cache, keys) ==
    IF keys = <<>> THEN cache
    ELSE local_cache_evict(Pop(cache, Head(keys)), Tail(keys))

\* --------------------------------------------------------------- Metrics
\* Metrics.__init__
MetricsInit ==
    [total_requests |-> 0, cache_hits |-> 0, local_cache_hits |-> 0,
     redis_cache_hits |-> 0, upstream_calls |-> 0, upstream_errors |-> 0,
     redis_errors |-> 0, redis_tracking_active |-> 0]

\* Faulty variant, for sensitivity: a Remote hit is not added to cache_hits.
atualizar_metricas_redis_untallied(m, tipo_acesso) ==
    CASE tipo_acesso = "local" ->
           [m EXCEPT !.total_requests = @ + 1, !.cache_hits = @ + 1,
                     !.local_cache_hits = @ + 1]
      [] tipo_acesso = "redis" ->
           [m EXCEPT !.total_requests = @ + 1, !.redis_cache_hits = @ + 1]
      [] tipo_acesso = "upstream" ->
           [m EXCEPT !.total_requests = @ + 1, !.upstream_calls = @ + 1]
      [] OTHER -> m

\* Faulty variant, for sensitivity: the batch subtracts the increments.
atualizar_metricas_subtract(m, tipo_acesso) ==
    CASE tipo_acesso = "local" ->
           [m EXCEPT !.total_requests = @ - 1, !.cache_hits = @ - 1,
                     !.local_cache_hits = @ - 1]
      [] tipo_acesso = "redis" ->
           [m EXCEPT !.total_requests = @ - 1, !.cache_hits = @ - 1,
                     !.redis_cache_hits = @ - 1]
      [] tipo_acesso = "upstream" ->
           [m EXCEPT !.total_requests = @ - 1, !.upstream_calls = @ - 1]
      [] OTHER -> m

\* _atualizar_metricas, through _atualizar_metricas_batch.
atualizar_metricas(m, tipo_acesso) ==
    CASE tipo_acesso = "local" ->
           [m EXCEPT !.total_requests = @ + 1, !.cache_hits = @ + 1,
                     !.local_cache_hits = @ + 1]
      [] tipo_acesso = "redis" ->
           [m EXCEPT !.total_requests = @ + 1, !.cache_hits = @ + 1,
                     !.redis_cache_hits = @ + 1]
      [] tipo_acesso = "upstream" ->
           [m EXCEPT !.total_requests = @ + 1, !.upstream_calls = @ + 1]
      [] OTHER -> m

\* ----------------------------------------------------------- Remote Tier
CACHE_TTL_SECONDS == 3600
DEFAULT_CONTENT_TYPE == "image/png"

Max(a, b) == IF a > b THEN a ELSE b

\* What the Redis server answers to the read pipeline (HMGET b ct, TTL) at
\* time t: the fields of a live hash with its remaining seconds, or two
\* nils with -2.
RedisReadReply(store, key, t) ==
    IF store[key] # None /\ store[key][1].exp > t
    THEN [kind |-> "ok", b |-> Some(store[key][1].b), ct |-> Some(store[key][1].ct),
          ttl |-> store[key][1].exp - t]
    ELSE [kind |-> "ok", b |-> None, ct |-> None, ttl |-> 0 - 2]

\* The write pipeline (HSET b ct, EXPIRE ttl) applied by the server at time
\* t for writer `by`; EXPIRE with ttl <= 0 deletes the key.
RedisWrite(store, key, body, ct, ttl, t, by) ==
    IF ttl <= 0 THEN [store EXCEPT ![key] = None]
    ELSE [store EXCEPT ![key] =
              Some([b |-> body, ct |-> ct, exp |-> t + ttl, by |-> by])]

\* Faulty variant, for sensitivity: a hit is given the default TTL instead of the remaining one.
verificar_cache_redis_default_ttl(reply) ==
    IF reply.kind = "error" THEN [result |-> None, redis_errors |-> 1]
    ELSE IF reply.b # None /\ reply.ttl > 0
    THEN [result |-> Some([body |-> reply.b[1],
                           ct |-> IF reply.ct = None THEN DEFAULT_CONTENT_TYPE
                                  ELSE reply.ct[1],
                           ttl |-> CACHE_TTL_SECONDS]),
          redis_errors |-> 0]
    ELSE [result |-> None, redis_errors |-> 0]

\* Faulty variant, for sensitivity: a failed pipeline is not counted.
verificar_cache_redis_uncounted(reply) ==
    IF reply.kind = "error" THEN [result |-> None, redis_errors |-> 0]
    ELSE IF reply.b # None /\ reply.ttl > 0
    THEN [result |-> Some([body |-> reply.b[1],
                           ct |-> IF reply.ct = None THEN DEFAULT_CONTENT_TYPE
                                  ELSE reply.ct[1],
                           ttl |-> Max(1, reply.ttl)]),
          redis_errors |-> 0]
    ELSE [result |-> None, redis_errors |-> 0]

\* _verificar_cache_redis on the pipeline's reply: the value returned and
\* the increment of metrics.redis_errors.
verificar_cache_redis(reply) ==
    IF reply.kind = "error" THEN [result |-> None, redis_errors |-> 1]
    ELSE IF reply.b # None /\ reply.ttl > 0
    THEN [result |-> Some([body |-> reply.b[1],
                           ct |-> IF reply.ct = None THEN DEFAULT_CONTENT_TYPE
                                  ELSE reply.ct[1],
                           ttl |-> Max(1, reply.ttl)]),
          redis_errors |-> 0]
    ELSE [result |-> None, redis_errors |-> 0]

\* Faulty variant, for sensitivity: a failed write pipeline is not counted.
salvar_no_cache_redis_uncounted(reply) == [redis_errors |-> 0]

\* _salvar_no_cache_redis on the outcome of the write pipeline: it returns
\* nothing and raises nothing; a failure adds 1 to metrics.redis_errors.
salvar_no_cache_redis(reply) ==
    [redis_errors |-> IF reply.kind = "error" THEN 1 ELSE 0]

\* Faulty variant, for sensitivity: the lookup's result is dropped, every request misses locally.
verificar_cache_local_miss(cache, key, t) ==
    [cache |-> local_cache_get(cache, key, t).cache, result |-> None]

\* _verificar_cache_local: the map after _local_cache_get and the value
\* returned, with tempo_restante = int(max(1, expira_em - now)).
verificar_cache_local(cache, key, t) ==
    LET g == local_cache_get(cache, key, t)
    IN [cache |-> g.cache,
        result |-> IF g.result = None THEN None
                   ELSE Some([body |-> g.result[1].body, ct |-> g.result[1].ct,
                              ttl |-> Max(1, g.result[1].exp - t)])]

\* -------------------------------------------------------- Origin Fetcher
\* A cache-control header: no max-age directive in it, or max-age=n.
NoMaxAge == [directive |-> "no-store", n |-> 0]
MaxAgeHeader(n) == [directive |-> "max-age", n |-> n]

\* _computar_ttl_dos_cabecalhos: MAX_AGE_PATTERN.search, else the default.
computar_ttl_dos_cabecalhos(cache_control) ==
    IF cache_control.directive = "max-age" THEN cache_control.n
    ELSE CACHE_TTL_SECONDS

\* What client.get may produce: an httpx.HTTPError, or a response.
OriginResponse(status, body, content_type, cache_control) ==
    [kind |-> "response", status |-> status, body |-> body,
     content_type |-> content_type, cache_control |-> cache_control]

TransportError == [kind |-> "transport"]

OriginReplies ==
    {TransportError}
    \cup {OriginResponse(s, "", None, NoMaxAge) : s \in {302, 503}}
    \cup {OriginResponse(200, "tileA", Some("image/jpeg"), MaxAgeHeader(n)) :
              n \in 0..MaxTTL}
    \cup {OriginResponse(200, "", None, NoMaxAge)}

\* Faulty variant, for sensitivity: only transport failures are counted.
buscar_dados_upstream_transport_only(reply) ==
    IF reply.kind = "transport" THEN [result |-> None, upstream_errors |-> 1]
    ELSE IF reply.status = 200
    THEN [result |-> Some([body |-> reply.body,
                           ct |-> IF reply.content_type = None
                                  THEN DEFAULT_CONTENT_TYPE
                                  ELSE reply.content_type[1],
                           ttl |-> computar_ttl_dos_cabecalhos(reply.cache_control)]),
          upstream_errors |-> 0]
    ELSE [result |-> None, upstream_errors |-> 0]

\* _buscar_dados_upstream on the outcome of client.get: the value returned
\* and the increment of metrics.upstream_errors.
buscar_dados_upstream(reply) ==
    IF reply.kind = "transport" THEN [result |-> None, upstream_errors |-> 1]
    ELSE IF reply.status = 200
    THEN [result |-> Some([body |-> reply.body,
                           ct |-> IF reply.content_type = None
                                  THEN DEFAULT_CONTENT_TYPE
                                  ELSE reply.content_type[1],
                           ttl |-> computar_ttl_dos_cabecalhos(reply.cache_control)]),
          upstream_errors |-> 0]
    ELSE [result |-> None,
          upstream_errors |-> IF reply.status >= 400 THEN 1 ELSE 0]

\* ------------------------------------------------------------- responses
\* X_CACHE_TEMPLATE.format(tipo_cache)
XCacheHit(tipo_cache) ==
    CASE tipo_cache = "LOCAL" -> "HIT-LOCAL"
      [] tipo_cache = "REDIS" -> "HIT-REDIS"

criar_resposta_cache_hit(conteudo, tipo_midia, tempo_restante, tipo_cache) ==
    [status |-> 200, body |-> conteudo, media_type |-> tipo_midia,
     max_age |-> Some(tempo_restante), x_cache |-> XCacheHit(tipo_cache)]

\* Faulty variant, for sensitivity: the MISS response advertises the default TTL.
criar_resposta_cache_miss_default_ttl(conteudo, tipo_midia, ttl) ==
    [status |-> 200, body |-> conteudo, media_type |-> tipo_midia,
     max_age |-> Some(CACHE_TTL_SECONDS), x_cache |-> "MISS"]

criar_resposta_cache_miss(conteudo, tipo_midia, ttl) ==
    [status |-> 200, body |-> conteudo, media_type |-> tipo_midia,
     max_age |-> Some(ttl), x_cache |-> "MISS"]

\* The default of the status_code parameter.
DEFAULT_ERROR_STATUS == 502

criar_resposta_erro_upstream(status_code) ==
    [status |-> status_code, body |-> "error", media_type |-> "application/json",
     max_age |-> None, x_cache |-> "MISS"]

\* The status proxy() answers with when _buscar_dados_upstream returned
\* None: the call passes no status_code.
ErrorStatus(reply) == DEFAULT_ERROR_STATUS

\* A proxy() task: where it is suspended, its key, the reply of the I/O it
\* awaits (None until it arrives), the tile fetched upstream, its response.
IdleTask == [pc |-> "idle", key |-> "", io |-> None, tile |-> None, resp |-> None]

\* ------------------------------------------------------------------ Init
Init ==
    /\ now = 0
    /\ LOCAL_CACHE_MAX_ENTRIES \in 1..MaxCapacity
    /\ local_cache = <<>>
    /\ call = [op |-> "none"]
    /\ inserted = [pure |-> TRUE, keys |-> <<>>]
    /\ metrics = MetricsInit
    /\ phase = "import"
    /\ retry_pc = "not_started"
    /\ backoff = 1
    /\ failures = 0
    /\ listener = "none"
    /\ redis_tracking_active = FALSE
    /\ server_tracking = FALSE
    /\ pushq = <<>>
    /\ invalidated = {}
    /\ remote = [k \in Keys |-> None]
    /\ req = [r \in Slots |-> IdleTask]
    /\ started = 0
    /\ last = IdleTask

\* The requests of Spec and SpecSequential all use the one key of ReqKeys,
\* so the capacity is never exceeded there and is fixed at its largest value.
InitProxy == Init /\ LOCAL_CACHE_MAX_ENTRIES = MaxCapacity

\* --------------------------------------------- Local Tier driven directly
\* The value of `inserted` once the calls made are no longer only sets, with
\* a positive TTL, of keys not set before.
NotOnlySets == [pure |-> FALSE, keys |-> <<>>]

Tick ==
    /\ now < MaxTime
    /\ now' = now + 1
    /\ UNCHANGED <<LOCAL_CACHE_MAX_ENTRIES, local_cache, call, inserted, metrics, invalidated>>
    /\ UNCHANGED trackingVars
    /\ UNCHANGED reqVars

GetCall(k) ==
    LET r == local_cache_get(local_cache, k, now)
    IN /\ local_cache' = r.cache
       /\ call' = [op |-> "get", key |-> k, at |-> now,
                   pos |-> IndexOf(local_cache, k),
                   item |-> IF Has(local_cache, k)
                            THEN Some(local_cache[IndexOf(local_cache, k)])
                            ELSE None,
                   result |-> r.result]
       /\ inserted' = NotOnlySets
       /\ UNCHANGED reqVars
       /\ UNCHANGED <<now, LOCAL_CACHE_MAX_ENTRIES, metrics, invalidated>>
       /\ UNCHANGED trackingVars

\* `evicted` is the number of entries the call's eviction loop removed.
SetCall(k, tile, ttl) ==
    /\ local_cache' = local_cache_set(local_cache, k, tile[1], tile[2], ttl, now,
                                      LOCAL_CACHE_MAX_ENTRIES)
    /\ call' = [op |-> "set", key |-> k, body |-> tile[1], ct |-> tile[2], ttl |-> ttl,
                at |-> now,
                evicted |-> (IF ttl <= 0 \/ Has(local_cache, k)
                             THEN Len(local_cache) ELSE Len(local_cache) + 1)
                            - Len(local_cache'),
                dropped_live |-> /\ local_cache # <<>>
                                 /\ ~Has(local_cache', local_cache[1].key)
                                 /\ local_cache[1].exp > now]
    /\ inserted' = IF inserted.pure /\ ttl > 0
                       /\ \A i \in 1..Len(inserted.keys) : inserted.keys[i] # k
                    THEN [inserted EXCEPT !.keys = Append(@, k)]
                    ELSE NotOnlySets
    /\ invalidated' = invalidated \ {k}
    /\ UNCHANGED reqVars
    /\ UNCHANGED <<now, LOCAL_CACHE_MAX_ENTRIES, metrics>>
    /\ UNCHANGED trackingVars

EvictCall(ks) ==
    /\ ks # <<>>
    /\ local_cache' = local_cache_evict(local_cache, ks)
    /\ call' = [op |-> "evict", keys |-> ks,
                removed |-> Len(local_cache) - Len(local_cache')]
    /\ inserted' = NotOnlySets
    /\ UNCHANGED reqVars
    /\ UNCHANGED <<now, LOCAL_CACHE_MAX_ENTRIES, metrics, invalidated>>
    /\ UNCHANGED trackingVars

KeyLists == {<<k>> : k \in Keys} \cup {<<k1, k2>> : k1 \in Keys, k2 \in Keys}

\* The Local Tier under every sequence of calls.
NextLocal ==
    \/ Tick
    \/ \E k \in Keys : GetCall(k)
    \/ \E k \in Keys, tile \in Tiles, ttl \in 0..MaxTTL : SetCall(k, tile, ttl)
    \/ \E ks \in KeyLists : EvictCall(ks)

SpecLocal == Init /\ [][NextLocal]_vars

\* ------------------------------------------------- push message decoding
\* Python values as the listener sees them: a type tag and a payload.
Bytes(s) == [t |-> "bytes", v |-> s]
List(xs) == [t |-> "list", v |-> xs]
IntVal(n) == [t |-> "int", v |-> n]
Nil == [t |-> "none", v |-> <<>>]

\* The message Redis pushes for the keys ks: [b'invalidate', [b'k', ...]].
Invalidate(ks) ==
    List(<<Bytes("invalidate"), List([i \in 1..Len(ks) |-> Bytes(ks[i])])>>)

\* Python truthiness, as used by `msg[1] or []`.
Truthy(x) ==
    CASE x.t = "none" -> FALSE
      [] x.t = "list" -> x.v # <<>>
      [] x.t = "bytes" -> x.v # ""
      [] x.t = "int" -> x.v # 0

RECURSIVE DecodeKeys(_)
\* The list comprehension: bytes items are decoded, items of another type dropped.
DecodeKeys(items) ==
    IF items = <<>> THEN <<>>
    ELSE IF Head(items).t = "bytes"
         THEN <<Head(items).v>> \o DecodeKeys(Tail(items))
         ELSE DecodeKeys(Tail(items))

\* Faulty variant, for sensitivity: the tag of the message is not compared.
InvalidationKeys_any_tag(msg) ==
    IF msg.t = "list" /\ Len(msg.v) >= 2
    THEN LET raw_keys == IF Truthy(msg.v[2]) THEN msg.v[2] ELSE List(<<>>)
         IN IF raw_keys.t = "list" THEN DecodeKeys(raw_keys.v) ELSE <<>>
    ELSE <<>>

\* The keys the listener passes to _local_cache_evict for msg (<<>>: no call).
\* Iterating bytes yields ints, which the comprehension drops; iterating an
\* int raises TypeError, which the inner except swallows.
InvalidationKeys(msg) ==
    IF msg.t = "list" /\ Len(msg.v) >= 2 /\ msg.v[1] = Bytes("invalidate")
    THEN LET raw_keys == IF Truthy(msg.v[2]) THEN msg.v[2] ELSE List(<<>>)
         IN IF raw_keys.t = "list" THEN DecodeKeys(raw_keys.v) ELSE <<>>
    ELSE <<>>

\* What the server side may push on the tracking connection.
Messages ==
    {Invalidate(<<"k1">>), Invalidate(<<"k1", "k2">>),
     List(<<Bytes("invalidate"), Nil>>),
     List(<<Bytes("message"), List(<<Bytes("k1")>>)>>),
     List(<<Bytes("invalidate")>>),
     Bytes("PONG"),
     List(<<Bytes("invalidate"), List(<<IntVal(7), Bytes("k3")>>)>>),
     List(<<Bytes("invalidate"), IntVal(7)>>)}

\* ------------------------------------------- registration task, listener
Min(a, b) == IF a < b THEN a ELSE b

\* Faulty variant, for sensitivity: the delay doubles without the cap.
NextBackoff_Uncapped(b) == b * 2

\* backoff = min(30, backoff * 2)
NextBackoff(b) == Min(30, b * 2)

\* lifespan startup: the clients are built and the retry task is created;
\* startup does not await it.
LifespanStartup ==
    /\ phase = "import"
    /\ phase' = "running"
    /\ retry_pc' = "ping"
    /\ UNCHANGED <<backoff, failures, listener, redis_tracking_active,
                   server_tracking, pushq>>
    /\ UNCHANGED reqVars
    /\ UNCHANGED <<now, LOCAL_CACHE_MAX_ENTRIES, local_cache, call, inserted, metrics,
                   invalidated>>

\* The except branch of the retry loop, up to `await asyncio.sleep(backoff)`.
RetryFailed ==
    /\ redis_tracking_active' = FALSE
    /\ metrics' = [metrics EXCEPT !.redis_tracking_active = 0]
    /\ failures' = failures + 1
    /\ retry_pc' = "sleep"
    /\ UNCHANGED <<phase, backoff, listener, pushq>>
    /\ UNCHANGED reqVars
    /\ UNCHANGED <<now, LOCAL_CACHE_MAX_ENTRIES, local_cache, call, inserted, invalidated>>

\* await redis.ping() returns.
RetryPingOk ==
    /\ retry_pc = "ping"
    /\ retry_pc' = "tracking"
    /\ UNCHANGED <<phase, backoff, failures, listener, redis_tracking_active,
                   server_tracking, pushq>>
    /\ UNCHANGED reqVars
    /\ UNCHANGED <<now, LOCAL_CACHE_MAX_ENTRIES, local_cache, call, inserted, metrics,
                   invalidated>>

\* await redis.ping() raises.
RetryPingFail ==
    /\ retry_pc = "ping"
    /\ failures < MaxFailures
    /\ RetryFailed
    /\ UNCHANGED server_tracking

\* Faulty variant, for sensitivity: the loop goes on after a successful
\* registration instead of returning.
RetryTrackingOk_NoReturn ==
    /\ retry_pc = "tracking"
    /\ server_tracking' = TRUE
    /\ listener' = "active"
    /\ redis_tracking_active' = TRUE
    /\ metrics' = [metrics EXCEPT !.redis_tracking_active = 1]
    /\ retry_pc' = "ping"
    /\ UNCHANGED <<phase, backoff, failures, pushq>>
    /\ UNCHANGED reqVars
    /\ UNCHANGED <<now, LOCAL_CACHE_MAX_ENTRIES, local_cache, call, inserted, invalidated>>

\* await redis.client_tracking(...) returns: the listener task is created,
\* the flag and the gauge are set, the retry task returns.
RetryTrackingOk ==
    /\ retry_pc = "tracking"
    /\ server_tracking' = TRUE
    /\ listener' = "active"
    /\ redis_tracking_active' = TRUE
    /\ metrics' = [metrics EXCEPT !.redis_tracking_active = 1]
    /\ retry_pc' = "returned"
    /\ UNCHANGED <<phase, backoff, failures, pushq>>
    /\ UNCHANGED reqVars
    /\ UNCHANGED <<now, LOCAL_CACHE_MAX_ENTRIES, local_cache, call, inserted, invalidated>>

\* await redis.client_tracking(...) raises; the server may have applied the
\* command before the reply was lost.
RetryTrackingFail(applied) ==
    /\ retry_pc = "tracking"
    /\ failures < MaxFailures
    /\ server_tracking' = (server_tracking \/ applied)
    /\ RetryFailed

\* asyncio.sleep(backoff) is over: the delay doubles, capped, and the loop
\* starts again.
RetryWake ==
    /\ retry_pc = "sleep"
    /\ backoff' = NextBackoff(backoff)
    /\ retry_pc' = "ping"
    /\ UNCHANGED <<phase, failures, listener, redis_tracking_active,
                   server_tracking, pushq>>
    /\ UNCHANGED reqVars
    /\ UNCHANGED <<now, LOCAL_CACHE_MAX_ENTRIES, local_cache, call, inserted, metrics,
                   invalidated>>

\* The server pushes a message on the tracking connection.
PushArrives(msg) ==
    /\ server_tracking
    /\ Len(pushq) < MaxPush
    /\ pushq' = Append(pushq, msg)
    /\ UNCHANGED <<phase, retry_pc, backoff, failures, listener,
                   redis_tracking_active, server_tracking>>
    /\ UNCHANGED reqVars
    /\ UNCHANGED <<now, LOCAL_CACHE_MAX_ENTRIES, local_cache, call, inserted, metrics,
                   invalidated>>

\* One turn of the listener loop: get_push_data() returns msg, the keys are
\* decoded and evicted.
ListenerReceive ==
    /\ listener = "active"
    /\ pushq # <<>>
    /\ LET keys == InvalidationKeys(Head(pushq))
       IN /\ local_cache' = local_cache_evict(local_cache, keys)
          /\ invalidated' = invalidated \cup {keys[i] : i \in 1..Len(keys)}
          /\ inserted' = inserted
          /\ call' = IF keys = <<>> THEN call
                     ELSE [op |-> "evict", keys |-> keys,
                           removed |-> Len(local_cache) - Len(local_cache')]
    /\ pushq' = Tail(pushq)
    /\ UNCHANGED <<phase, retry_pc, backoff, failures, listener,
                   redis_tracking_active, server_tracking>>
    /\ UNCHANGED reqVars
    /\ UNCHANGED <<now, LOCAL_CACHE_MAX_ENTRIES, metrics>>

\* get_push_data() raises (connection lost, socket timeout): the outer try
\* catches only CancelledError, so the task ends with the exception.
ListenerReadError ==
    /\ listener = "active"
    /\ listener' = "dead"
    /\ UNCHANGED <<phase, retry_pc, backoff, failures, redis_tracking_active,
                   server_tracking, pushq>>
    /\ UNCHANGED reqVars
    /\ UNCHANGED <<now, LOCAL_CACHE_MAX_ENTRIES, local_cache, call, inserted, metrics,
                   invalidated>>

\* lifespan shutdown, up to the end of `await app.state.redis.aclose()`: the
\* two clients are closed; the other tasks run meanwhile.
LifespanShutdown ==
    /\ phase = "running"
    /\ phase' = "closing"
    /\ UNCHANGED <<retry_pc, backoff, failures, listener, redis_tracking_active,
                   server_tracking, pushq>>
    /\ UNCHANGED reqVars
    /\ UNCHANGED <<now, LOCAL_CACHE_MAX_ENTRIES, local_cache, call, inserted, metrics,
                   invalidated>>

\* The loop `for t in (tracking_listener, tracking_task)`: t.cancel(), then
\* `await t` inside `try ... except Exception: pass`.
\*  - an active listener receives CancelledError at get_push_data(), catches
\*    it and returns: the await returns;
\*  - a listener that ended with an exception: the await re-raises it and
\*    the except clause swallows it;
\*  - a retry task that has returned: the await returns;
\*  - a retry task still in its loop receives CancelledError at its await,
\*    which `except Exception` does not catch (it is a BaseException): the
\*    task ends cancelled, `await t` raises CancelledError in lifespan and
\*    the except clause there does not catch it either.
\* A listener exists only once the retry task has returned, so the loop
\* suspends at most once and nothing else of this model runs inside it.
LifespanShutdownCancel ==
    /\ phase = "closing"
    /\ listener' = IF listener = "active" THEN "stopped" ELSE listener
    /\ retry_pc' = IF retry_pc \in {"ping", "tracking", "sleep"} THEN "cancelled"
                   ELSE retry_pc
    /\ phase' = IF retry_pc \in {"ping", "tracking", "sleep"} THEN "shutdown_error"
                ELSE "stopped"
    /\ UNCHANGED <<backoff, failures, redis_tracking_active, server_tracking, pushq>>
    /\ UNCHANGED reqVars
    /\ UNCHANGED <<now, LOCAL_CACHE_MAX_ENTRIES, local_cache, call, inserted, metrics,
                   invalidated>>

\* A request path filling the Local Tier, reduced to its set call.
FillCall(k) ==
    /\ phase = "running"
    /\ local_cache' = local_cache_set(local_cache, k, "tileA", "image/jpeg", 1, now,
                                      LOCAL_CACHE_MAX_ENTRIES)
    /\ invalidated' = invalidated \ {k}
    /\ UNCHANGED reqVars
    /\ UNCHANGED <<now, LOCAL_CACHE_MAX_ENTRIES, call, inserted, metrics>>
    /\ UNCHANGED trackingVars

\* The except branch once the failure count has reached MaxFailures: the
\* same assignments, with the count held at the bound (the delay is 30 from
\* the sixth failure on).
RetryFailedAgain ==
    /\ failures = MaxFailures
    /\ redis_tracking_active' = FALSE
    /\ metrics' = [metrics EXCEPT !.redis_tracking_active = 0]
    /\ retry_pc' = "sleep"
    /\ UNCHANGED <<phase, backoff, failures, listener, pushq>>
    /\ UNCHANGED reqVars
    /\ UNCHANGED <<now, LOCAL_CACHE_MAX_ENTRIES, local_cache, call, inserted, invalidated>>

\* await redis.ping() raises once more.
RetryPingFailAgain ==
    /\ retry_pc = "ping"
    /\ RetryFailedAgain
    /\ UNCHANGED server_tracking

\* await redis.client_tracking(...) raises once more.
RetryTrackingFailAgain(applied) ==
    /\ retry_pc = "tracking"
    /\ server_tracking' = (server_tracking \/ applied)
    /\ RetryFailedAgain

\* An attempt of the retry loop fails, at ping() or at client_tracking().
RetryAttemptFails ==
    \/ RetryPingFail
    \/ RetryPingFailAgain
    \/ \E applied \in BOOLEAN : RetryTrackingFail(applied)
    \/ \E applied \in BOOLEAN : RetryTrackingFailAgain(applied)

\* One step of the retry task: an await of its loop completes, with a
\* result or with an exception.
RetryTaskStep ==
    \/ RetryPingOk
    \/ RetryTrackingOk
    \/ RetryWake
    \/ RetryAttemptFails

\* The registration task alone, failing any number of times, while the
\* clock advances.
NextRegistration ==
    \/ LifespanStartup
    \/ RetryPingOk
    \/ RetryPingFail
    \/ RetryPingFailAgain
    \/ RetryTrackingOk
    \/ \E applied \in BOOLEAN : RetryTrackingFail(applied)
    \/ \E applied \in BOOLEAN : RetryTrackingFailAgain(applied)
    \/ RetryWake
    \/ Tick

\* The event loop runs every task that is ready (startup creates the retry
\* task), and each await of the retry loop completes: ping() and
\* client_tracking() return or raise within the socket timeouts, and
\* asyncio.sleep(backoff) ends after at most 30 seconds.
SpecRegistration ==
    /\ Init
    /\ [][NextRegistration]_vars
    /\ WF_vars(LifespanStartup)
    /\ WF_vars(RetryTaskStep)

\* The registration task and the listener, with the Local Tier being
\* filled by requests.
NextTracking ==
    \/ LifespanStartup
    \/ RetryPingOk
    \/ RetryPingFail
    \/ RetryTrackingOk
    \/ \E applied \in BOOLEAN : RetryTrackingFail(applied)
    \/ RetryWake
    \/ \E msg \in Messages : PushArrives(msg)
    \/ ListenerReceive
    \/ ListenerReadError
    \/ \E k \in Keys : FillCall(k)
    \/ LifespanShutdown
    \/ LifespanShutdownCancel

SpecTracking == Init /\ [][NextTracking]_vars

\* ------------------------------------------------------------- proxy()
otherVars == <<now, LOCAL_CACHE_MAX_ENTRIES, call, inserted>>

\* proxy() from its entry to its first suspension: the Local Tier lookup,
\* then either the HIT-LOCAL response or the read pipeline sent to Redis.
ProxyStart(r, k) ==
    /\ phase = "running"
    /\ req[r].pc = "idle"
    /\ started < MaxRequests
    /\ started' = started + 1
    /\ LET l == verificar_cache_local(local_cache, k, now)
       IN /\ local_cache' = l.cache
          /\ IF l.result # None
             THEN /\ metrics' = atualizar_metricas(metrics, "local")
                  /\ last' = [pc |-> "done", key |-> k, io |-> None, tile |-> None,
                               resp |-> Some(criar_resposta_cache_hit(
                                            l.result[1].body, l.result[1].ct,
                                            l.result[1].ttl, "LOCAL"))]
                  /\ req' = req
             ELSE /\ metrics' = metrics
                  /\ req' = [req EXCEPT ![r] =
                        [pc |-> "redis_read", key |-> k, io |-> None,
                         tile |-> None, resp |-> None]]
                  /\ last' = last
    /\ UNCHANGED <<remote, invalidated>>
    /\ UNCHANGED otherVars
    /\ UNCHANGED trackingVars

\* The read pipeline reaches the server and is answered, or fails.
RedisExecRead(r, ok) ==
    /\ req[r].pc = "redis_read"
    /\ req[r].io = None
    /\ req' = [req EXCEPT ![r].io =
                  Some(IF ok THEN RedisReadReply(remote, req[r].key, now)
                       ELSE [kind |-> "error"])]
    /\ UNCHANGED <<remote, started, last, local_cache, metrics, invalidated>>
    /\ UNCHANGED otherVars
    /\ UNCHANGED trackingVars

\* proxy() resumes with the pipeline's outcome: a Remote hit is copied to
\* the Local Tier and answered, anything else goes to the origin.
ProxyAfterRedisRead(r) ==
    /\ req[r].pc = "redis_read"
    /\ req[r].io # None
    /\ LET v == verificar_cache_redis(req[r].io[1])
           m == [metrics EXCEPT !.redis_errors = @ + v.redis_errors]
       IN IF v.result # None
          THEN /\ local_cache' = local_cache_set(local_cache, req[r].key,
                                     v.result[1].body, v.result[1].ct,
                                     v.result[1].ttl, now, LOCAL_CACHE_MAX_ENTRIES)
               /\ invalidated' = invalidated \ {req[r].key}
               /\ metrics' = atualizar_metricas(m, "redis")
               /\ last' = [req[r] EXCEPT !.pc = "done",
                              !.resp = Some(criar_resposta_cache_hit(
                                  v.result[1].body, v.result[1].ct,
                                  v.result[1].ttl, "REDIS"))]
               /\ req' = [req EXCEPT ![r] = IdleTask]
          ELSE /\ metrics' = m
               /\ req' = [req EXCEPT ![r].pc = "upstream", ![r].io = None]
               /\ UNCHANGED <<local_cache, invalidated, last>>
    /\ UNCHANGED <<remote, started>>
    /\ UNCHANGED otherVars
    /\ UNCHANGED trackingVars

\* client.get ends with `reply` (the origin answered, or the transport
\* failed) and proxy() resumes: the error response, or the upstream metric
\* and the write pipeline sent to Redis.
ProxyAfterUpstream(r, reply) ==
    /\ req[r].pc = "upstream"
    /\ LET u == buscar_dados_upstream(reply)
       IN IF u.result = None
          THEN /\ metrics' = [metrics EXCEPT !.upstream_errors = @ + u.upstream_errors]
               /\ last' = [req[r] EXCEPT !.pc = "done", !.io = Some(reply),
                              !.resp = Some(criar_resposta_erro_upstream(
                                                ErrorStatus(reply)))]
               /\ req' = [req EXCEPT ![r] = IdleTask]
          ELSE /\ metrics' = atualizar_metricas(metrics, "upstream")
               /\ req' = [req EXCEPT ![r].pc = "redis_write", ![r].io = None,
                              ![r].tile = u.result]
               /\ last' = last
    /\ UNCHANGED <<remote, started, local_cache, invalidated>>
    /\ UNCHANGED otherVars
    /\ UNCHANGED trackingVars

\* The write pipeline: applied and answered ("ok"), applied with the reply
\* lost ("lost"), or not applied ("fail").  The tracking registration uses
\* noloop, so the server pushes nothing back for this write.
RedisExecWrite(r, outcome) ==
    /\ req[r].pc = "redis_write"
    /\ req[r].io = None
    /\ remote' = IF outcome \in {"ok", "lost"}
                 THEN RedisWrite(remote, req[r].key, req[r].tile[1].body,
                                 req[r].tile[1].ct, req[r].tile[1].ttl, now, r)
                 ELSE remote
    /\ req' = [req EXCEPT ![r].io =
                  Some([kind |-> IF outcome = "ok" THEN "ok" ELSE "error",
                        at |-> now])]
    /\ UNCHANGED <<started, last, local_cache, metrics, invalidated>>
    /\ UNCHANGED otherVars
    /\ UNCHANGED trackingVars

\* _salvar_no_cache_redis returns (a failure is counted and swallowed), then
\* the Local Tier is filled and the MISS response built.
ProxyAfterRedisWrite(r) ==
    /\ req[r].pc = "redis_write"
    /\ req[r].io # None
    /\ metrics' = [metrics EXCEPT !.redis_errors =
                       @ + salvar_no_cache_redis(req[r].io[1]).redis_errors]
    /\ local_cache' = local_cache_set(local_cache, req[r].key, req[r].tile[1].body,
                          req[r].tile[1].ct, req[r].tile[1].ttl, now,
                          LOCAL_CACHE_MAX_ENTRIES)
    /\ invalidated' = invalidated \ {req[r].key}
    /\ last' = [req[r] EXCEPT !.pc = "done",
                    !.resp = Some(criar_resposta_cache_miss(
                        req[r].tile[1].body, req[r].tile[1].ct, req[r].tile[1].ttl))]
    /\ req' = [req EXCEPT ![r] = IdleTask]
    /\ UNCHANGED <<remote, started>>
    /\ UNCHANGED otherVars
    /\ UNCHANGED trackingVars

\* Another proxy instance fills the shared key; the server pushes the
\* invalidation to this instance when its tracking is registered.
ExternalWrite(k, ttl) ==
    /\ phase = "running"
    /\ remote' = RedisWrite(remote, k, "tileB", "image/png", ttl, now, "ext")
    /\ IF server_tracking
       THEN /\ Len(pushq) < MaxPush
            /\ pushq' = Append(pushq, Invalidate(<<k>>))
       ELSE pushq' = pushq
    /\ UNCHANGED <<phase, retry_pc, backoff, failures, listener,
                   redis_tracking_active, server_tracking>>
    /\ UNCHANGED <<req, started, last, local_cache, metrics, invalidated>>
    /\ UNCHANGED otherVars

\* The request path: proxy() tasks against the Remote Tier, the origin and
\* the clock, while the tracking registration is still pending (the
\* registration task and the listener are exercised in SpecTracking).
Next ==
    \/ LifespanStartup
    \/ Tick
    \/ \E r \in Slots, k \in ReqKeys : ProxyStart(r, k)
    \/ \E r \in Slots, ok \in BOOLEAN : RedisExecRead(r, ok)
    \/ \E r \in Slots : ProxyAfterRedisRead(r)
    \/ \E r \in Slots, reply \in OriginReplies : ProxyAfterUpstream(r, reply)
    \/ \E r \in Slots, outcome \in {"ok", "lost", "fail"} : RedisExecWrite(r, outcome)
    \/ \E r \in Slots : ProxyAfterRedisWrite(r)
    \/ \E k \in ReqKeys : ExternalWrite(k, MaxTTL)

Spec == InitProxy /\ [][Next]_vars

\* The request path with the tracking registered and the listener running:
\* proxy() tasks, writes of another instance and the invalidations they
\* push, with Redis and the clock not interfering.
NextCoherence ==
    \/ LifespanStartup
    \/ RetryPingOk
    \/ RetryTrackingOk
    \/ \E r \in Slots, k \in ReqKeys : ProxyStart(r, k)
    \/ \E r \in Slots : RedisExecRead(r, TRUE)
    \/ \E r \in Slots : ProxyAfterRedisRead(r)
    \/ \E r \in Slots, reply \in OriginReplies : ProxyAfterUpstream(r, reply)
    \/ \E r \in Slots : RedisExecWrite(r, "ok")
    \/ \E r \in Slots : ProxyAfterRedisWrite(r)
    \/ \E k \in ReqKeys : ExternalWrite(k, MaxTTL)
    \/ ListenerReceive

SpecCoherence == InitProxy /\ [][NextCoherence]_vars

\* ------------------------------------------------- requests, one at a time
MaxSequential == 6
\* Failures of Redis and of the origin injected into sequential requests.
MaxFaults == 1

\* The number of decimals metrics_json rounds to, as a power of ten.
MILLION == 1000000

\* `(n / total) if total else 0.0`, as a fraction <<numerator, denominator>>.
Ratio(n, total) == IF total # 0 THEN <<n, total>> ELSE <<0, 1>>

\* Faulty variant, for sensitivity: the digits after the sixth are cut off.
round6_truncated(q) == (q[1] * MILLION) \div q[2]

\* round(q, 6) for a fraction q >= 0, in millionths: the nearest multiple of
\* 10^-6 (no fraction with a denominator this small falls on a half).
round6(q) == (2 * q[1] * MILLION + q[2]) \div (2 * q[2])

\* metrics_json: the counters copied under the lock and the derived fields;
\* the four rounded fields are given in millionths.
metrics_json(m) ==
    [total_requests |-> m.total_requests,
     cache_hits |-> m.cache_hits,
     local_cache_hits |-> m.local_cache_hits,
     redis_cache_hits |-> m.redis_cache_hits,
     upstream_calls |-> m.upstream_calls,
     upstream_errors |-> m.upstream_errors,
     redis_errors |-> m.redis_errors,
     redis_tracking_active |-> m.redis_tracking_active,
     cache_hit_ratio |-> round6(Ratio(m.cache_hits, m.total_requests)),
     local_cache_hit_ratio |-> round6(Ratio(m.local_cache_hits, m.total_requests)),
     redis_cache_hit_ratio |-> round6(Ratio(m.redis_cache_hits, m.total_requests)),
     redis_error_rate |-> round6(Ratio(m.redis_errors, m.total_requests)),
     redis_tracking_status |-> IF m.redis_tracking_active # 0 THEN "active"
                               ELSE "inactive"]

\* GET /metrics
MetricsJson ==
    /\ phase = "running"
    /\ call' = [op |-> "metrics", data |-> metrics_json(metrics)]
    /\ UNCHANGED <<now, LOCAL_CACHE_MAX_ENTRIES, local_cache, inserted, metrics,
                   invalidated>>
    /\ UNCHANGED trackingVars
    /\ UNCHANGED reqVars

\* proxy() from entry to return with no other task running in between: the
\* read pipeline succeeds or fails (read_ok), client.get ends with `reply`,
\* the write pipeline with `outcome`; each is used only if proxy() gets there.
\* The response is recorded in `call`.
ProxyRun(r, k, read_ok, reply, outcome) ==
    /\ phase = "running"
    /\ \A s \in Slots : req[s].pc = "idle"
    /\ started < MaxSequential
    /\ LET usesRead == verificar_cache_local(local_cache, k, now).result = None
           usesOrigin ==
               /\ usesRead
               /\ verificar_cache_redis(
                      IF read_ok THEN RedisReadReply(remote, k, now)
                      ELSE [kind |-> "error"]).result = None
           failedFetch == buscar_dados_upstream(reply).result = None
           usesWrite == usesOrigin /\ ~failedFetch
       IN \* an outcome proxy() does not get to is not drawn twice
          /\ ~usesRead => read_ok
          /\ ~usesOrigin => reply = TransportError
          /\ ~usesWrite => outcome = "ok"
          \* at most MaxFaults counted failures are injected
          /\ ((usesRead /\ ~read_ok) \/ (usesOrigin /\ failedFetch)
                  \/ (usesWrite /\ outcome # "ok"))
               => metrics.redis_errors + metrics.upstream_errors < MaxFaults
    /\ started' = started + 1
    /\ LET l == verificar_cache_local(local_cache, k, now)
           rr == IF read_ok THEN RedisReadReply(remote, k, now)
                 ELSE [kind |-> "error"]
           v == verificar_cache_redis(rr)
           m1 == [metrics EXCEPT !.redis_errors = @ + v.redis_errors]
           u == buscar_dados_upstream(reply)
           wr == [kind |-> IF outcome = "ok" THEN "ok" ELSE "error", at |-> now]
       IN IF l.result # None
          THEN /\ local_cache' = l.cache
               /\ metrics' = atualizar_metricas(metrics, "local")
               /\ call' = [op |-> "proxy", key |-> k,
                            resp |-> criar_resposta_cache_hit(
                                         l.result[1].body, l.result[1].ct,
                                         l.result[1].ttl, "LOCAL")]
               /\ UNCHANGED <<remote, invalidated>>
          ELSE IF v.result # None
          THEN /\ local_cache' = local_cache_set(l.cache, k, v.result[1].body,
                                     v.result[1].ct, v.result[1].ttl, now,
                                     LOCAL_CACHE_MAX_ENTRIES)
               /\ invalidated' = invalidated \ {k}
               /\ metrics' = atualizar_metricas(m1, "redis")
               /\ call' = [op |-> "proxy", key |-> k,
                            resp |-> criar_resposta_cache_hit(
                                         v.result[1].body, v.result[1].ct,
                                         v.result[1].ttl, "REDIS")]
               /\ remote' = remote
          ELSE IF u.result = None
          THEN /\ local_cache' = l.cache
               /\ metrics' = [m1 EXCEPT !.upstream_errors = @ + u.upstream_errors]
               /\ call' = [op |-> "proxy", key |-> k,
                            resp |-> criar_resposta_erro_upstream(ErrorStatus(reply))]
               /\ UNCHANGED <<remote, invalidated>>
          ELSE /\ remote' = IF outcome \in {"ok", "lost"}
                            THEN RedisWrite(remote, k, u.result[1].body,
                                            u.result[1].ct, u.result[1].ttl, now, r)
                            ELSE remote
               /\ metrics' = [atualizar_metricas(m1, "upstream") EXCEPT
                                  !.redis_errors = @ + salvar_no_cache_redis(wr).redis_errors]
               /\ local_cache' = local_cache_set(l.cache, k, u.result[1].body,
                                     u.result[1].ct, u.result[1].ttl, now,
                                     LOCAL_CACHE_MAX_ENTRIES)
               /\ invalidated' = invalidated \ {k}
               /\ call' = [op |-> "proxy", key |-> k,
                            resp |-> criar_resposta_cache_miss(
                                         u.result[1].body, u.result[1].ct,
                                         u.result[1].ttl)]
    /\ UNCHANGED <<req, last, now, LOCAL_CACHE_MAX_ENTRIES, inserted>>
    /\ UNCHANGED trackingVars

\* Requests served one after the other, with the clock, other instances
\* writing to Redis, and reads of the metrics.
NextSequential ==
    \/ LifespanStartup
    \/ Tick
    \/ \E k \in ReqKeys, read_ok \in BOOLEAN, reply \in OriginReplies,
          outcome \in {"ok", "lost", "fail"} : ProxyRun("r1", k, read_ok, reply, outcome)
    \/ \E k \in ReqKeys : ExternalWrite(k, MaxTTL)
    \/ MetricsJson

SpecSequential == InitProxy /\ [][NextSequential]_vars

\* ------------------------------------------------------------ Key Codec
\* Strings are sequences of code points, so that they can be compared,
\* sorted, escaped and concatenated as Python does.
MaxParams == 2

\* Short values of the two configured strings: "h/" and "t:".
HERE_MAPS_BASE_URL == <<104, 47>>
REDIS_KEY_PREFIX == <<116, 58>>

\* Request paths: "x" and "mc/x".
Paths == {<<120>>, <<109, 99, 47, 120>>}

\* Query parameter names "a", "b", "tag" and values "1", " ".
ParamNames == {<<97>>, <<98>>, <<116, 97, 103>>}
ParamValues == {<<49>>, <<32>>}
ParamItems == {<<n, v>> : n \in ParamNames, v \in ParamValues}

\* request.query_params.multi_items(): the pairs in the order of the URL.
ParamLists == UNION {[1..n -> ParamItems] : n \in 0..MaxParams}

\* _normalizar_path_here: a leading "mc/" is dropped.
normalizar_path_here(path) ==
    IF Len(path) >= 3 /\ SubSeq(path, 1, 3) = <<109, 99, 47>>
    THEN SubSeq(path, 4, Len(path))
    ELSE path

RECURSIVE StrLess(_, _)
\* Python's < on str: by code point, a proper prefix first.
StrLess(s, t) ==
    IF t = <<>> THEN FALSE
    ELSE IF s = <<>> THEN TRUE
    ELSE IF Head(s) # Head(t) THEN Head(s) < Head(t)
    ELSE StrLess(Tail(s), Tail(t))

\* Python's < on (name, value) tuples.
ItemLess(p, q) == StrLess(p[1], q[1]) \/ (p[1] = q[1] /\ StrLess(p[2], q[2]))

RECURSIVE InsertSorted(_, _)
InsertSorted(item, items) ==
    IF items = <<>> THEN <<item>>
    ELSE IF ItemLess(Head(items), item)
         THEN <<Head(items)>> \o InsertSorted(item, Tail(items))
         ELSE <<item>> \o items

RECURSIVE sorted(_)
\* sorted(list of tuples): ascending; equal tuples are indistinguishable.
sorted(items) ==
    IF items = <<>> THEN <<>>
    ELSE InsertSorted(Head(items), sorted(Tail(items)))

HexDigit(n) == IF n < 10 THEN 48 + n ELSE 55 + n

\* urllib.parse.quote_plus on one code point: unreserved characters are
\* kept, a space becomes "+", anything else "%XX".
QuoteChar(c) ==
    IF c \in (48..57) \cup (65..90) \cup (97..122) \cup {95, 46, 45, 126}
    THEN <<c>>
    ELSE IF c = 32 THEN <<43>>
    ELSE <<37, HexDigit(c \div 16), HexDigit(c % 16)>>

RECURSIVE quote_plus(_)
quote_plus(str) ==
    IF str = <<>> THEN <<>> ELSE QuoteChar(Head(str)) \o quote_plus(Tail(str))

RECURSIVE urlencode(_)
\* urlencode(list of pairs): "name=value" joined with "&".
urlencode(items) ==
    IF items = <<>> THEN <<>>
    ELSE quote_plus(Head(items)[1]) \o <<61>> \o quote_plus(Head(items)[2])
         \o (IF Tail(items) = <<>> THEN <<>> ELSE <<38>> \o urlencode(Tail(items)))

\* Faulty variant, for sensitivity: the parameters are not sorted.
gerar_chave_cache_unsorted(url_completa, parametros) ==
    url_completa \o <<63>> \o urlencode(parametros)

\* _gerar_chave_cache: f"{url_completa}?{urlencode(sorted(multi_items))}"
gerar_chave_cache(url_completa, parametros) ==
    url_completa \o <<63>> \o urlencode(sorted(parametros))

\* _gerar_chave_redis
gerar_chave_redis(chave_cache) == REDIS_KEY_PREFIX \o chave_cache

\* proxy() from its entry to the two keys, for a request path and the query
\* parameters as received.
KeyCall(path, params) ==
    /\ LET url_here == HERE_MAPS_BASE_URL \o normalizar_path_here(path)
           chave_cache == gerar_chave_cache(url_here, params)
       IN call' = [op |-> "key", path |-> path, params |-> params,
                   url_here |-> url_here, chave_cache |-> chave_cache,
                   chave_redis |-> gerar_chave_redis(chave_cache)]
    /\ UNCHANGED <<now, LOCAL_CACHE_MAX_ENTRIES, local_cache, inserted, metrics,
                   invalidated>>
    /\ UNCHANGED trackingVars
    /\ UNCHANGED reqVars

\* The Key Codec applied to every request path and parameter list.
NextKey == \E path \in Paths, params \in ParamLists : KeyCall(path, params)

SpecKey == Init /\ [][NextKey]_vars

\* ------------------------------------------------- Local Tier capacity
\* Number of grid readings of available memory tried.
MaxReadings == 12

AVERAGE_IMAGE_SIZE_KB == 400
MAX_MEMORY_PERCENT == 20

\* floor(a * b / c) for naturals, computed without forming a * b.
MulDiv(a, b, c) == b * (a \div c) + (b * (a % c)) \div c

\* psutil.virtual_memory().available / 1024, in whole KB: a grid from 0 to
\* beyond the reading that gives 100000 entries, and the readings next to
\* those that give exactly 100, 101, 5000, 99999 and 100000 entries.
Readings ==
    {k * 19999999 : k \in 0..MaxReadings}
    \cup {e * 2000 + d : e \in {100, 101, 5000, 99999, 100000}, d \in {0 - 1, 0, 1}}

\* Faulty variant, for sensitivity: no lower clamp.
calculate_cache_limit_no_floor(read_ok, available_memory_kb) ==
    IF ~read_ok THEN 5000
    ELSE Min(MulDiv(available_memory_kb, MAX_MEMORY_PERCENT, 100)
                 \div AVERAGE_IMAGE_SIZE_KB,
             100000)

\* _calculate_cache_limit: read_ok is FALSE when reading the host memory
\* raises.  int() of the non-negative quotient is its floor.
calculate_cache_limit(read_ok, available_memory_kb) ==
    IF ~read_ok THEN 5000
    ELSE LET max_cache_memory_kb ==
                 MulDiv(available_memory_kb, MAX_MEMORY_PERCENT, 100)
             max_entries == max_cache_memory_kb \div AVERAGE_IMAGE_SIZE_KB
         IN Max(100, Min(max_entries, 100000))

\* One evaluation of _calculate_cache_limit on a memory reading.
CalculateCacheLimit(read_ok, reading) ==
    /\ call' = [op |-> "limit", ok |-> read_ok, reading |-> reading,
                result |-> calculate_cache_limit(read_ok, reading)]
    /\ inserted' = NotOnlySets
    /\ UNCHANGED <<now, LOCAL_CACHE_MAX_ENTRIES, local_cache, metrics, invalidated>>
    /\ UNCHANGED trackingVars
    /\ UNCHANGED reqVars

\* The capacity computation next to the operations of the Local Tier, these
\* on the keys of ReqKeys.
NextCapacity ==
    \/ \E reading \in Readings : CalculateCacheLimit(TRUE, reading)
    \/ CalculateCacheLimit(FALSE, 0)
    \/ Tick
    \/ \E k \in ReqKeys : GetCall(k)
    \/ \E k \in ReqKeys, tile \in Tiles, ttl \in (0 - 1)..MaxTTL : SetCall(k, tile, ttl)
    \/ \E k \in ReqKeys : EvictCall(<<k>>)

SpecCapacity == Init /\ [][NextCapacity]_vars

\* ===================================================================
\* Properties
\* ===================================================================
\* The entry stored under key k, for a key that is present.
EntryOf(cache, k) == cache[IndexOf(cache, k)]

\* k is present in the Local Tier and not expired at time t.
LiveLocal(cache, k, t) == Has(cache, k) /\ EntryOf(cache, k).exp > t

\* C1: after every completed Local Tier operation (set, get, evict) the
\* number of entries is at most the configured capacity.
C1_SizeWithinCapacity == Len(local_cache) <= LOCAL_CACHE_MAX_ENTRIES

\* A set that had to evict has returned, leaving the map exactly full.
C1_Witness ==
    /\ call.op = "set"
    /\ call.evicted = 1
    /\ Len(local_cache) = LOCAL_CACHE_MAX_ENTRIES
    /\ LOCAL_CACHE_MAX_ENTRIES = MaxCapacity

\* C2: a request that went to the origin, got a tile with TTL t > 0 and
\* whose Redis write was answered returns X-Cache MISS with max-age t; the
\* Local Tier then holds the tile under the key with expiry now + t, and
\* the record the request wrote to the Remote Tier holds the same tile with
\* expiry (time of the write) + t, unless another writer replaced it since.
C2_MissFill ==
    [][\A r \in Slots :
         (ProxyAfterRedisWrite(r) /\ req[r].io[1].kind = "ok"
              /\ req[r].tile[1].ttl > 0)
         => LET k == req[r].key
                tile == req[r].tile[1]
            IN /\ last'.pc = "done" /\ last'.key = k
               /\ last'.resp[1].status = 200
               /\ last'.resp[1].x_cache = "MISS"
               /\ last'.resp[1].max_age = Some(tile.ttl)
               /\ last'.resp[1].body = tile.body
               /\ Has(local_cache', k)
               /\ EntryOf(local_cache', k) =
                      [key |-> k, body |-> tile.body, ct |-> tile.ct,
                       exp |-> now + tile.ttl]
               /\ (remote'[k] # None /\ remote'[k][1].by = r)
                      => remote'[k][1] =
                             [b |-> tile.body, ct |-> tile.ct,
                              exp |-> req[r].io[1].at + tile.ttl, by |-> r]]_vars

\* A MISS has been answered and both tiers hold the live tile under the key,
\* with the same expiry.
C2_Witness ==
    /\ last.pc = "done"
    /\ last.resp[1].x_cache = "MISS"
    /\ last.resp[1].status = 200
    /\ last.resp[1].max_age = Some(1)
    /\ LiveLocal(local_cache, last.key, now)
    /\ remote[last.key] # None
    /\ remote[last.key][1].by \in Slots
    /\ remote[last.key][1].exp = EntryOf(local_cache, last.key).exp
    /\ remote[last.key][1].b = EntryOf(local_cache, last.key).body

\* C3: a request whose key is present and unexpired in the Local Tier is
\* answered HIT-LOCAL in the step that accepts it: no task is left waiting
\* for Redis or the origin, the Remote Tier and upstream_calls are unchanged.
C3_LocalHitFrame ==
    [][\A r \in Slots, k \in ReqKeys :
         (ProxyStart(r, k) /\ LiveLocal(local_cache, k, now))
         => /\ last'.pc = "done" /\ last'.key = k
            /\ last'.resp[1].x_cache = "HIT-LOCAL"
            /\ last'.resp[1].body = EntryOf(local_cache, k).body
            /\ req' = req
            /\ remote' = remote
            /\ metrics'.upstream_calls = metrics.upstream_calls
            /\ metrics'.local_cache_hits = metrics.local_cache_hits + 1]_vars

\* A request has been answered from the Local Tier.
C3_Witness ==
    /\ last.pc = "done"
    /\ last.resp[1].x_cache = "HIT-LOCAL"
    /\ metrics.local_cache_hits = 1

\* C4: when the read pipeline answers a body with remaining TTL r > 0, the
\* request returns HIT-REDIS with max-age r without going to the origin, and
\* the Local Tier holds the tile under the key with expiry now + r.
C4_RemoteHit ==
    [][\A r \in Slots :
         (ProxyAfterRedisRead(r) /\ req[r].io[1].kind = "ok"
              /\ req[r].io[1].b # None /\ req[r].io[1].ttl > 0)
         => LET k == req[r].key
                reply == req[r].io[1]
            IN /\ last'.pc = "done" /\ last'.key = k
               /\ last'.resp[1].x_cache = "HIT-REDIS"
               /\ last'.resp[1].max_age = Some(reply.ttl)
               /\ last'.resp[1].body = reply.b[1]
               /\ req'[r] = IdleTask
               /\ metrics'.upstream_calls = metrics.upstream_calls
               /\ metrics'.upstream_errors = metrics.upstream_errors
               /\ Has(local_cache', k)
               /\ EntryOf(local_cache', k).body = reply.b[1]
               /\ EntryOf(local_cache', k).exp = now + reply.ttl]_vars

\* A request has been answered from the Remote Tier and the Local Tier has
\* been filled with the remaining TTL.
C4_Witness ==
    /\ last.pc = "done"
    /\ last.resp[1].x_cache = "HIT-REDIS"
    /\ last.resp[1].max_age = Some(MaxTTL)
    /\ Has(local_cache, last.key)
    /\ EntryOf(local_cache, last.key).exp = now + MaxTTL
    /\ metrics.upstream_calls = 0

\* The last request ended on the origin's outcome `last.io`.
EndedOnOrigin == last.pc = "done" /\ last.io # None
                 /\ last.io[1].kind \in {"transport", "response"}

\* C5: a non-2xx status of the origin is the status of the proxy's
\* response, and only a transport failure is answered 502.
C5_StatusPropagated ==
    EndedOnOrigin
    => IF last.io[1].kind = "transport" THEN last.resp[1].status = 502
       ELSE last.resp[1].status = last.io[1].status

\* C6: when the origin fetch fails (transport failure, or a status >= 400)
\* upstream_errors grows by exactly 1 and neither tier changes.
FailedFetch(reply) ==
    IF reply.kind = "transport" THEN TRUE ELSE reply.status >= 400

C7_InvalidatedAbsent ==
    \A k \in invalidated : local_cache_get(local_cache, k, now).result = None

\* The listener has just evicted a batch of two keys that were both cached.
C7_Witness ==
    /\ call.op = "evict"
    /\ call.removed = 2
    /\ invalidated = {"k1", "k2"}

\* The registration cycle is running (attempting, or sleeping before the
\* next attempt).
RetryCycleRunning == retry_pc \in {"ping", "tracking", "sleep"}

\* C8: a listener that ended on a read error is not left dead: the
\* registration cycle is running again.
C8_ErrorReentersRetry == (listener = "dead") => RetryCycleRunning

\* C9: the gauge is 1 exactly when the subscription is registered and the
\* listener task is running.
C9_GaugeIffActive ==
    (metrics.redis_tracking_active = 1) <=> (server_tracking /\ listener = "active")

\* The delay of the n-th consecutive failed attempt: 1, 2, 4, 8, 16, 30, 30...
ExpectedDelay(n) == Min(30, 2 ^ (n - 1))

\* C10: the task sleeps ExpectedDelay(n) after its n-th consecutive failure
\* and holds the next delay while it attempts; startup has completed
\* whatever the attempts do.
C10_BackoffSequence ==
    /\ retry_pc = "sleep" => backoff = ExpectedDelay(failures)
    /\ retry_pc \in {"ping", "tracking"} => backoff = ExpectedDelay(failures + 1)
    /\ backoff \in 1..30
    /\ retry_pc # "not_started" => phase # "import"

\* The seventh failure in a row: the task sleeps 30 for the second time,
\* with the process running.
C10_Witness ==
    /\ retry_pc = "sleep"
    /\ failures = 7
    /\ backoff = 30
    /\ phase = "running"
    /\ listener = "none"

\* C11: when the read pipeline fails, the step that handles the failure adds
\* exactly 1 to redis_errors, answers nothing, changes neither tier and
\* leaves the request waiting for the origin; and a response other than 200
\* is only ever produced by the step that handles a failed origin fetch.
C11_ReadFailureIsMiss ==
    [][/\ \A r \in Slots :
            (ProxyAfterRedisRead(r) /\ req[r].io[1].kind = "error")
            => /\ metrics' = [metrics EXCEPT !.redis_errors = @ + 1]
               /\ req'[r].pc = "upstream"
               /\ req'[r].key = req[r].key
               /\ last' = last
               /\ local_cache' = local_cache
               /\ remote' = remote
       /\ (last' # last /\ last'.resp[1].status # 200)
            => \E r \in Slots, reply \in OriginReplies :
                   /\ ProxyAfterUpstream(r, reply)
                   /\ buscar_dados_upstream(reply).result = None]_vars

\* The only request so far lost its read pipeline: the failure is counted,
\* nothing has been answered and the request is at the origin fetch.
C11_Witness ==
    /\ started = 1
    /\ metrics.redis_errors = 1
    /\ last = IdleTask
    /\ \E r \in Slots : req[r].pc = "upstream" /\ req[r].key \in ReqKeys

C13_ExpiredNeverReturned ==
    [][\A k \in Keys :
         GetCall(k)
         => LET i == IndexOf(local_cache, k)
            IN /\ (i # 0 /\ local_cache[i].exp < now)
                    => (call'.result = None /\ ~Has(local_cache', k))
               /\ call'.result # None => call'.result[1].exp >= now]_vars

\* A get found an entry that had expired before the call, returned absent
\* and the key is gone.
C13_Witness ==
    /\ call.op = "get"
    /\ call.item # None
    /\ call.item[1].exp < call.at
    /\ call.result = None
    /\ ~Has(local_cache, call.key)

\* C14: once set(k, e, ttl) with ttl > 0 has returned, and until the TTL
\* has passed, the next call being get(k) returns e's body and content type.
C14_RoundTrip ==
    (call.op = "set" /\ call.ttl > 0 /\ now < call.at + call.ttl)
    => LET g == local_cache_get(local_cache, call.key, now)
       IN /\ g.result # None
          /\ g.result[1].body = call.body
          /\ g.result[1].ct = call.ct

\* A set has just written a key that was already cached, in place.
C14_Witness ==
    /\ call.op = "set"
    /\ call.ttl > 0
    /\ call.evicted = 0
    /\ now = call.at
    /\ Len(local_cache) = 2
    /\ local_cache[1].key = call.key
    /\ local_cache[1].body = "tileA"
    /\ call.body = "tileA"
    /\ local_cache_get(local_cache, call.key, now).result # None

\* The keys of the map, oldest first.
KeysOf(cache) == [i \in 1..Len(cache) |-> cache[i].key]

\* C15: when the calls so far were only sets, with a positive TTL, of
\* distinct keys, the map holds them in insertion order while they fit; after
\* capacity + 1 of them exactly one key is gone, the first one inserted.
C15_EvictionOrder ==
    inserted.pure
    => /\ Len(inserted.keys) <= LOCAL_CACHE_MAX_ENTRIES
            => KeysOf(local_cache) = inserted.keys
       /\ Len(inserted.keys) = LOCAL_CACHE_MAX_ENTRIES + 1
            => KeysOf(local_cache) = Tail(inserted.keys)

\* With the largest capacity, capacity + 1 distinct keys have been set and
\* the first is the one missing.
C15_Witness ==
    /\ inserted.pure
    /\ LOCAL_CACHE_MAX_ENTRIES = MaxCapacity
    /\ Len(inserted.keys) = MaxCapacity + 1
    /\ ~Has(local_cache, inserted.keys[1])
    /\ \A i \in 2..Len(inserted.keys) : Has(local_cache, inserted.keys[i])

\* The parameter list ps taken in the order f, a permutation of its indices.
Reordered(ps, f) == [i \in 1..Len(ps) |-> ps[f[i]]]

\* C16: for the same path and the same multiset of query parameters, every
\* ordering of the parameters gives the key the request got.
C16_KeyOrderIndependent ==
    call.op = "key"
    => \A f \in Permutations(1..Len(call.params)) :
           gerar_chave_cache(call.url_here, Reordered(call.params, f))
               = call.chave_cache

\* A key was built for two parameters received in descending order.
C16_Witness ==
    /\ call.op = "key"
    /\ Len(call.params) = 2
    /\ ItemLess(call.params[2], call.params[1])
    /\ call.chave_cache =
           gerar_chave_cache(call.url_here, <<call.params[2], call.params[1]>>)

\* The parameter name reserved for bookkeeping: "tag".
ReservedParam == <<116, 97, 103>>

RECURSIVE WithoutReserved(_)
WithoutReserved(ps) ==
    IF ps = <<>> THEN <<>>
    ELSE IF Head(ps)[1] = ReservedParam THEN WithoutReserved(Tail(ps))
    ELSE <<Head(ps)>> \o WithoutReserved(Tail(ps))

\* C17: the key built for a request is the key of the same request without
\* the reserved parameter, so that requests differing only in that
\* parameter share one key.
C17_ReservedParamIgnored ==
    call.op = "key"
    => call.chave_cache
           = gerar_chave_cache(call.url_here, WithoutReserved(call.params))

\* The shutdown code of lifespan has ended, by returning or by raising.
ShutdownEnded == phase \in {"stopped", "shutdown_error"}

\* C18: whatever the registration task and the listener were doing when
\* shutdown began, once the shutdown code has ended no task is left running
\* and the shutdown code has not raised.
C18_ShutdownClean ==
    ShutdownEnded
    => /\ listener # "active"
       /\ ~RetryCycleRunning
       /\ phase = "stopped"

Abs(x) == IF x < 0 THEN 0 - x ELSE x

\* r millionths is the multiple of 10^-6 nearest to n / d.
NearestMillionth(r, n, d) == 2 * Abs(r * d - n * MILLION) <= d

\* C19 (as the code has it): every snapshot returned by GET /metrics gives
\* cache_hit_ratio, local_cache_hit_ratio and redis_cache_hit_ratio as
\* cache_hits, local_cache_hits and redis_cache_hits divided by
\* total_requests and rounded to 6 decimals, all 0.0 when total_requests is
\* 0; after 3 local hits, 2 remote hits and 1 upstream fill total_requests
\* is 6, cache_hit_ratio 0.833333 and local_cache_hit_ratio 0.5.
C19_SnapshotRatiosRounded ==
    call.op = "metrics"
    => LET d == call.data
       IN /\ d.total_requests = 0
               => /\ d.cache_hit_ratio = 0
                  /\ d.local_cache_hit_ratio = 0
                  /\ d.redis_cache_hit_ratio = 0
          /\ d.total_requests # 0
               => /\ NearestMillionth(d.cache_hit_ratio, d.cache_hits,
                                      d.total_requests)
                  /\ NearestMillionth(d.local_cache_hit_ratio, d.local_cache_hits,
                                      d.total_requests)
                  /\ NearestMillionth(d.redis_cache_hit_ratio, d.redis_cache_hits,
                                      d.total_requests)
          /\ (d.local_cache_hits = 3 /\ d.redis_cache_hits = 2
                  /\ d.upstream_calls = 1)
               => /\ d.total_requests = 6
                  /\ d.cache_hit_ratio = 833333
                  /\ d.local_cache_hit_ratio = 500000

\* The snapshot read after 3 local hits, 2 remote hits and 1 upstream fill.
C19_Witness ==
    /\ call.op = "metrics"
    /\ call.data.local_cache_hits = 3
    /\ call.data.redis_cache_hits = 2
    /\ call.data.upstream_calls = 1
    /\ call.data.total_requests = 6
    /\ call.data.cache_hit_ratio = 833333
    /\ call.data.local_cache_hit_ratio = 500000

\* C19 as stated: the three ratios of a snapshot are exactly cache_hits,
\* local_cache_hits and redis_cache_hits over total_requests (5/6 and 3/6 in
\* the scenario), and 0.0 when total_requests is 0.
C19_SnapshotRatiosExact ==
    call.op = "metrics"
    => LET d == call.data
       IN /\ d.total_requests = 0
               => /\ d.cache_hit_ratio = 0
                  /\ d.local_cache_hit_ratio = 0
                  /\ d.redis_cache_hit_ratio = 0
          /\ d.total_requests # 0
               => /\ d.cache_hit_ratio * d.total_requests = d.cache_hits * MILLION
                  /\ d.local_cache_hit_ratio * d.total_requests
                         = d.local_cache_hits * MILLION
                  /\ d.redis_cache_hit_ratio * d.total_requests
                         = d.redis_cache_hits * MILLION
          /\ (d.local_cache_hits = 3 /\ d.redis_cache_hits = 2
                  /\ d.upstream_calls = 1)
               => /\ d.total_requests = 6
                  /\ d.cache_hit_ratio * 6 = 5 * MILLION
                  /\ d.local_cache_hit_ratio * 6 = 3 * MILLION

\* The seven counters of Metrics.
Counters ==
    {"total_requests", "cache_hits", "local_cache_hits", "redis_cache_hits",
     "upstream_calls", "upstream_errors", "redis_errors"}

\* C20: no step lowers or resets a counter.
C20_CountersMonotonic ==
    [][\A c \in Counters : metrics'[c] >= metrics[c]]_vars

\* Requests of every outcome have been counted and the metrics read since:
\* each kind of counter has moved.
C20_Witness ==
    /\ call.op = "metrics"
    /\ metrics.local_cache_hits >= 1
    /\ metrics.redis_cache_hits >= 1
    /\ metrics.upstream_calls >= 1
    /\ metrics.upstream_errors + metrics.redis_errors >= 1
    /\ call.data.total_requests = metrics.total_requests

\* C21: after set(k, e, ttl) with ttl > 0 has returned, k is the most
\* recently used entry, the last one the eviction loop would take, also when
\* k was already present.
C21_OverwritePromotes ==
    (call.op = "set" /\ call.ttl > 0)
    => local_cache[Len(local_cache)].key = call.key

\* The map with key k read at time t, then a new key set: what a get of k
\* followed by a set of new leaves.
GetThenSet(cache, k, new, t, cap) ==
    local_cache_set(local_cache_get(cache, k, t).cache, new, "tileA", "image/jpeg",
                    1, t, cap)

\* C22: a get that hits leaves k last in the order, the others as they
\* were; and whenever the map is full, with at least two entries, a get of
\* its oldest unexpired key followed by the set of a new key evicts the
\* second-oldest key and keeps k.
C22_GetPromotes ==
    /\ (call.op = "get" /\ call.result # None /\ now = call.at)
         => /\ local_cache[Len(local_cache)] = call.result[1]
            /\ call.result[1].key = call.key
    /\ \A k \in Keys :
         (Has(local_cache, k) /\ EntryOf(local_cache, k).exp > now)
         => KeysOf(local_cache_get(local_cache, k, now).cache)
                = KeysOf(Pop(local_cache, k)) \o <<k>>
    /\ (Len(local_cache) = LOCAL_CACHE_MAX_ENTRIES /\ Len(local_cache) >= 2
            /\ local_cache[1].exp > now)
         => \A new \in Keys :
                ~Has(local_cache, new)
                => LET after == GetThenSet(local_cache, local_cache[1].key, new, now,
                                           LOCAL_CACHE_MAX_ENTRIES)
                   IN /\ Has(after, local_cache[1].key)
                      /\ ~Has(after, local_cache[2].key)
                      /\ Has(after, new)

\* A get has just hit the oldest key of a full map and moved it to the end.
C22_Witness ==
    /\ call.op = "get"
    /\ call.result # None
    /\ call.pos = 1
    /\ LOCAL_CACHE_MAX_ENTRIES = MaxCapacity
    /\ Len(local_cache) = MaxCapacity
    /\ local_cache[Len(local_cache)].key = call.key

\* C26: for every key, present or not, set with ttl <= 0 returns the map
\* as it was: same keys, values, expiries and order.
C26_NonPositiveTtlNoOp ==
    \A k \in Keys, tile \in Tiles, ttl \in {0 - 1, 0} :
        local_cache_set(local_cache, k, tile[1], tile[2], ttl, now,
                        LOCAL_CACHE_MAX_ENTRIES) = local_cache

\* A set with ttl <= 0 has returned for a key that is cached with another
\* body, which is still there.
C26_Witness ==
    /\ call.op = "set"
    /\ call.ttl <= 0
    /\ call.ttl = 0
    /\ call.evicted = 0
    /\ Has(local_cache, call.key)
    /\ EntryOf(local_cache, call.key).body # call.body
    /\ Len(local_cache) = 2
    /\ local_cache[1].key = call.key

\* The entries of cache whose key is not in the list ks, in their order.
RECURSIVE Without(_, _)
Without(cache, ks) ==
    IF cache = <<>> THEN <<>>
    ELSE IF \E i \in 1..Len(ks) : ks[i] = Head(cache).key
         THEN Without(Tail(cache), ks)
         ELSE <<Head(cache)>> \o Without(Tail(cache), ks)

\* C27: evict(keys) leaves exactly the entries whose key is not in keys,
\* unchanged and in the same order, whether the keys were present or not.
C27_EvictExactly ==
    /\ \A ks \in KeyLists :
           local_cache_evict(local_cache, ks) = Without(local_cache, ks)
    /\ call.op = "evict"
         => \A i \in 1..Len(call.keys) : ~Has(local_cache, call.keys[i])

\* An evict of two keys, one cached and one not, has returned and another
\* entry is still there.
C27_Witness ==
    /\ call.op = "evict"
    /\ Len(call.keys) = 2
    /\ call.keys[1] # call.keys[2]
    /\ call.removed = 1
    /\ Len(local_cache) = 1

\* C28: for every memory reading the capacity computed is
\* min(100000, max(100, floor(available * percent / average entry size))),
\* so it lies in 100..100000; it is 5000 when the host memory cannot be
\* read; and no operation changes the capacity of the running process.
C28_CapacityFormula ==
    /\ [](call.op = "limit"
            => IF call.ok
               THEN /\ call.result
                          = Min(100000,
                                Max(100, call.reading
                                           \div ((100 * AVERAGE_IMAGE_SIZE_KB)
                                                    \div MAX_MEMORY_PERCENT)))
                    /\ call.result \in 100..100000
               ELSE call.result = 5000)
    /\ [][LOCAL_CACHE_MAX_ENTRIES' = LOCAL_CACHE_MAX_ENTRIES]_vars

\* The computation has run on a reading one KB short of 101 entries and
\* gave 100, the lower clamp not being what decided it.
C28_Witness ==
    /\ call.op = "limit"
    /\ call.ok
    /\ call.reading = 101 * 2000 - 1
    /\ call.result = 100

\* C23: when the read pipeline answers with an empty body field or with a
\* remaining TTL that is not positive, the record counts as absent: proxy()
\* goes on to the origin fetch, answers nothing from the record and copies
\* nothing of it to the Local Tier.
C23_EmptyOrExpiredIsAbsent ==
    [][\A r \in Slots :
          (/\ ProxyAfterRedisRead(r)
           /\ req[r].io[1].kind = "ok"
           /\ \/ req[r].io[1].b = None
              \/ req[r].io[1].b = Some("")
              \/ req[r].io[1].ttl <= 0)
          => /\ req'[r].pc = "upstream"
             /\ local_cache' = local_cache
             /\ last' = last]_vars

\* C24: requests are not coalesced.  A request that missed both tiers goes
\* to the origin whatever the other requests are doing, and each successful
\* fetch is counted, so two requests for one key in flight together fetch
\* twice; the Local Tier nevertheless never holds two entries for a key
\* (the Remote Tier holds one hash per key by construction).
C24_NoCoalescing ==
    /\ [](\A i, j \in 1..Len(local_cache) :
              local_cache[i].key = local_cache[j].key => i = j)
    /\ [][\A r \in Slots :
             (ProxyAfterRedisRead(r)
                  /\ verificar_cache_redis(req[r].io[1]).result = None)
             => req'[r].pc = "upstream"]_vars
    /\ [][\A r \in Slots :
             (/\ \E reply \in OriginReplies :
                    /\ ProxyAfterUpstream(r, reply)
                    /\ buscar_dados_upstream(reply).result # None)
             => /\ metrics'.upstream_calls = metrics.upstream_calls + 1
                /\ req'[r].pc = "redis_write"]_vars

\* Two requests for the same key are in flight, both have missed both tiers
\* and both have fetched the tile from the origin.
C24_Witness ==
    /\ \A r \in Slots : req[r].pc = "redis_write" /\ req[r].key = "k1"
    /\ started = 2
    /\ metrics.upstream_calls = 2
    /\ metrics.redis_errors = 0
    /\ local_cache = <<>>
    /\ remote["k1"] = None

\* C29: in every reachable state total_requests = cache_hits +
\* upstream_calls and cache_hits = local_cache_hits + redis_cache_hits; a
\* request that ends in a failed origin fetch leaves total_requests as it
\* was.
C29_CounterConsistency ==
    /\ [](/\ metrics.total_requests = metrics.cache_hits + metrics.upstream_calls
          /\ metrics.cache_hits
                 = metrics.local_cache_hits + metrics.redis_cache_hits)
    /\ [][\A r \in Slots :
             (/\ \E reply \in OriginReplies :
                    ProxyAfterUpstream(r, reply) /\ FailedFetch(reply))
             => /\ last'.pc = "done"
                /\ metrics'.total_requests = metrics.total_requests]_vars

\* A request has just ended on a failed origin fetch, after another request
\* was served by the origin; only the served one is in the totals.
C29_Witness ==
    /\ EndedOnOrigin
    /\ FailedFetch(last.io[1])
    /\ metrics.upstream_errors = 1
    /\ metrics.upstream_calls = 1
    /\ metrics.total_requests = 1
    /\ started = 2

\* msg is an invalidate message as far as its key list.
TaggedList(msg) ==
    /\ msg.t = "list"
    /\ Len(msg.v) >= 2
    /\ msg.v[1] = Bytes("invalidate")
    /\ msg.v[2].t = "list"

\* msg is not [b'invalidate', [key, ...]] with string keys only.
Malformed(msg) ==
    ~TaggedList(msg) \/ \E i \in 1..Len(msg.v[2].v) : msg.v[2].v[i].t # "bytes"

\* The string keys in the key list of an invalidate message.
StringKeys(msg) ==
    IF TaggedList(msg)
    THEN {msg.v[2].v[i].v : i \in {j \in 1..Len(msg.v[2].v) : msg.v[2].v[j].t = "bytes"}}
    ELSE {}

HeldBody(r) ==
    IF req[r].pc = "redis_write" /\ req[r].io # None
    THEN Some(req[r].tile[1].body)
    ELSE IF req[r].pc = "redis_read" /\ req[r].io # None
              /\ verificar_cache_redis(req[r].io[1]).result # None
         THEN Some(verificar_cache_redis(req[r].io[1]).result[1].body)
         ELSE None

\* Request r is suspended holding a value of its key that another instance
\* has replaced in Redis since, and the listener has processed the
\* invalidation of that write (no push is pending, nothing was set since).
InvalidatedWhileSuspended(r) ==
    /\ HeldBody(r) # None
    /\ server_tracking /\ listener = "active" /\ pushq = <<>>
    /\ req[r].key \in invalidated
    /\ remote[req[r].key] # None
    /\ remote[req[r].key][1].by = "ext"
    /\ remote[req[r].key][1].b # HeldBody(r)[1]

\* C30: once the listener has processed the invalidation of k, a request
\* that read k from Redis, or fetched it from the origin, before that
\* invalidation does not put that older value into the Local Tier when it
\* resumes.
C30_NoStaleBackfill ==
    [][\A r \in Slots :
          (InvalidatedWhileSuspended(r)
               /\ (ProxyAfterRedisRead(r) \/ ProxyAfterRedisWrite(r)))
          => ~(/\ Has(local_cache', req[r].key)
               /\ EntryOf(local_cache', req[r].key).body = HeldBody(r)[1])]_vars

\* The registration has succeeded: the retry task has returned, the
\* listener runs, the flag and the gauge are set.
Registered ==
    /\ retry_pc = "returned"
    /\ listener = "active"
    /\ server_tracking
    /\ redis_tracking_active
    /\ metrics.redis_tracking_active = 1

\* C31: if from some point on no attempt fails, the retry task eventually
\* returns, for good, with the listener running and the gauge at 1.  The
\* listener is started once: only by the step in which the registration
\* succeeds, from no listener, and the task returns in that step only.  As
\* long as the task has not returned there is no listener and the gauge is
\* 0, and a task that never returns comes back to ping() again and again.
C31_RegistrationLiveness ==
    /\ (<>[][~RetryAttemptFails]_vars) => <>[]Registered
    /\ [][(listener' # listener \/ (retry_pc' = "returned" /\ retry_pc # "returned"))
           => (RetryTrackingOk /\ listener = "none")]_vars
    /\ [](retry_pc # "returned"
            => (listener = "none" /\ metrics.redis_tracking_active = 0
                  /\ ~redis_tracking_active))
    /\ (<>(retry_pc = "returned")) \/ []<>(retry_pc = "ping")

\* The registration has succeeded after the failure count reached its bound.
C31_Witness ==
    /\ Registered
    /\ failures = MaxFailures
    /\ backoff = 30

\* k is cached with an expiry that has passed.
ExpiredLocal(cache, k, t) == Has(cache, k) /\ EntryOf(cache, k).exp <= t

\* A set of a new key on a full map drops the first entry, whatever the
\* expiries in the map, and puts the new entry last.
SetAtCapacityEvictsOldest ==
    Len(local_cache) = LOCAL_CACHE_MAX_ENTRIES
    => \A k \in Keys, tile \in Tiles, ttl \in 1..MaxTTL :
           ~Has(local_cache, k)
           => local_cache_set(local_cache, k, tile[1], tile[2], ttl, now,
                              LOCAL_CACHE_MAX_ENTRIES)
                = Tail(local_cache)
                    \o <<[key |-> k, body |-> tile[1], ct |-> tile[2],
                          exp |-> now + ttl]>>

\* The cached key k is still cached after a get of any other key and after
\* any set whose eviction does not pick k as the oldest entry.
KeptByOtherGetsAndSets(k) ==
    /\ \A k2 \in Keys \ {k} : Has(local_cache_get(local_cache, k2, now).cache, k)
    /\ \A k2 \in Keys, tile \in Tiles, ttl \in 0..MaxTTL :
          (\/ local_cache[1].key # k
           \/ Has(local_cache, k2)
           \/ Len(local_cache) < LOCAL_CACHE_MAX_ENTRIES
           \/ ttl = 0)
          => Has(local_cache_set(local_cache, k2, tile[1], tile[2], ttl, now,
                                 LOCAL_CACHE_MAX_ENTRIES), k)

\* C32 as stated: an expired entry leaves the map only when a get observes
\* it or when the eviction of a set picks it as the oldest entry, so no
\* other operation, evict included, and no passing of time removes it;
\* expired entries count toward the size, and a set on a full map evicts
\* the oldest entry even if it is unexpired while an expired one sits
\* elsewhere.
C32_ExpiredRemovedOnlyByGetOrLru ==
    /\ [](\A k \in Keys :
              ExpiredLocal(local_cache, k, now)
              => /\ KeptByOtherGetsAndSets(k)
                 /\ \A ks \in KeyLists : Has(local_cache_evict(local_cache, ks), k))
    /\ []SetAtCapacityEvictsOldest
    /\ [][now' # now => local_cache' = local_cache]_vars

\* C32, amended: an expired entry leaves the map only when a get observes
\* it, when the eviction of a set picks it as the oldest entry, or when
\* evict is called with its key; no other operation and no passing of time
\* removes it; expired entries count toward the size, and a set on a full
\* map evicts the oldest entry even if it is unexpired while an expired one
\* sits elsewhere.
C32_LazyExpiry ==
    /\ [](\A k \in Keys :
              ExpiredLocal(local_cache, k, now)
              => /\ KeptByOtherGetsAndSets(k)
                 /\ \A ks \in KeyLists :
                       (\A i \in 1..Len(ks) : ks[i] # k)
                       => Has(local_cache_evict(local_cache, ks), k))
    /\ []SetAtCapacityEvictsOldest
    /\ [][now' # now => local_cache' = local_cache]_vars

\* A set on a full map has just evicted an unexpired entry, and an expired
\* entry is still in the map, which is full again.
C32_Witness ==
    /\ call.op = "set"
    /\ call.evicted = 1
    /\ call.dropped_live
    /\ now = call.at
    /\ Len(local_cache) = LOCAL_CACHE_MAX_ENTRIES
    /\ LOCAL_CACHE_MAX_ENTRIES = MaxCapacity
    /\ \E i \in 1..Len(local_cache) : local_cache[i].exp <= now

====
